---- MODULE Spec2Model ----
(***************************************************************************)
(* primitive_db: a file-backed record store driven by a command loop.      *)
(*                                                                         *)
(* The model follows src/primitive_db: core.py (validator, schema manager, *)
(* row engine), parser.py (value lists and assignment lists), utils.py     *)
(* (JSON persistence) and engine.py (the command loop `run`).              *)
(*                                                                         *)
(* Python values are records [t, n, s]: t is the Python type ("int",       *)
(* "bool", "str"), n the numeric value (True is 1, False is 0, as in       *)
(* Python, where bool is a subclass of int) and s the text of a str.       *)
(* A dict is a sequence of [k, v] pairs in insertion order with distinct   *)
(* keys; a row (a dict whose order no operation reads) is a function from  *)
(* column names to values.  Text is a TLA+ string, read character by       *)
(* character with SubSeq.                                                  *)
(***************************************************************************)
EXTENDS Integers, Sequences, FiniteSets, TLC

VARIABLES
    supported,  \* constants.SUPPORTED_TYPES, fixed for a run
    metadata,   \* the metadata file: table name -> [columns |-> schema]
    files,      \* the data files: table name -> sequence of rows
    pc,         \* where `run` stands: "prompt", "printed", "crashed"
    last,       \* the command just executed and what it produced
    assigned,   \* history: table name -> ids returned by insert so far
    scen,       \* history: how many steps of the spec's scenario ran so far
    parser_in,  \* the text handed to the parser
    parser_out  \* what the parser made of it

vars == <<supported, metadata, files, pc, last, assigned, scen, parser_in, parser_out>>

(***************************************************************************)
(* Bounds of the model.                                                    *)
(***************************************************************************)
MaxRows == 3
MaxId == 4
MaxDbRows == 1
MaxDbId == 2
MaxInner == 3

(***************************************************************************)
(* Python values.                                                          *)
(***************************************************************************)
PyInt(i) == [t |-> "int", n |-> i, s |-> ""]
PyBool(b) == [t |-> "bool", n |-> IF b THEN 1 ELSE 0, s |-> ""]
PyStr(x) == [t |-> "str", n |-> 0, s |-> x]

\* isinstance(v, int): bool is a subclass of int
IsInstanceInt(v) == v.t \in {"int", "bool"}
IsInstanceBool(v) == v.t = "bool"
IsInstanceStr(v) == v.t = "str"

\* a == b on int, bool and str operands: numbers compare by value whatever
\* their type (True == 1), a str equals only the same str
PyEq(a, b) ==
    IF IsInstanceStr(a) \/ IsInstanceStr(b)
    THEN IsInstanceStr(a) /\ IsInstanceStr(b) /\ a.s = b.s
    ELSE a.n = b.n

\* row.get(key) == value: a missing key gives None, which equals no value
RowGetEq(row, key, value) == key \in DOMAIN row /\ PyEq(row[key], value)

(***************************************************************************)
(* str methods.                                                            *)
(***************************************************************************)
CharAt(s, i) == SubSeq(s, i, i)
IsSpace(c) == c \in {" ", "\t"}

RECURSIVE lstrip(_)
lstrip(s) ==
    IF Len(s) > 0 /\ IsSpace(CharAt(s, 1)) THEN lstrip(SubSeq(s, 2, Len(s))) ELSE s

RECURSIVE rstrip(_)
rstrip(s) ==
    IF Len(s) > 0 /\ IsSpace(CharAt(s, Len(s)))
    THEN rstrip(SubSeq(s, 1, Len(s) - 1))
    ELSE s

strip(s) == rstrip(lstrip(s))

\* s.find(c) + 1: the position of the first c in s, 0 when there is none
RECURSIVE FindFrom(_, _, _)
FindFrom(s, c, i) ==
    IF i > Len(s) THEN 0
    ELSE IF CharAt(s, i) = c THEN i
    ELSE FindFrom(s, c, i + 1)

Find(s, c) == FindFrom(s, c, 1)

(***************************************************************************)
(* constants.py is not among the sources.  The reserved identity column is *)
(* the literal "ID" that insert and update use.  The supported types are   *)
(* either the three the specification names or the three that              *)
(* _validate_value and its docstring name; a run has one of them.          *)
(***************************************************************************)
RESERVED_ID_COLUMN == "ID"
SupportedTypeSets == {{"int", "bool", "string"}, {"int", "str", "bool"}}

(***************************************************************************)
(* core.py: the validator and the schema manager.                          *)
(***************************************************************************)
Col(name, type) == [name |-> name, type |-> type]

\* _validate_value: TRUE when the value is returned, FALSE when
\* InvalidValueError is raised
_validate_value(col_type, value) ==
    CASE col_type = "int" -> ~IsInstanceBool(value) /\ IsInstanceInt(value)
      [] col_type = "bool" -> IsInstanceBool(value)
      [] col_type = "str" -> IsInstanceStr(value)
      [] OTHER -> FALSE

\* _parse_column_type: [err, name, type]
_parse_column_type(types, column_token) ==
    LET p == Find(column_token, ":")
        name == strip(SubSeq(column_token, 1, p - 1))
        col_type == strip(SubSeq(column_token, p + 1, Len(column_token)))
    IN  IF p = 0 THEN [err |-> "InvalidValue", name |-> "", type |-> ""]
        ELSE IF name = "" \/ col_type = ""
             THEN [err |-> "InvalidValue", name |-> "", type |-> ""]
        ELSE IF name = RESERVED_ID_COLUMN
             THEN [err |-> "InvalidValue", name |-> "", type |-> ""]
        ELSE IF col_type \notin types
             THEN [err |-> "InvalidValue", name |-> "", type |-> ""]
        ELSE [err |-> "none", name |-> name, type |-> col_type]

\* the loop of create_table over `columns` from position i on:
\* [err, cols] with the columns parsed so far
RECURSIVE ParseColumns(_, _, _, _, _)
ParseColumns(types, columns, i, parsed_columns, seen_columns) ==
    IF i > Len(columns) THEN [err |-> "none", cols |-> parsed_columns]
    ELSE LET c == _parse_column_type(types, columns[i])
         IN  IF c.err # "none" THEN [err |-> c.err, cols |-> parsed_columns]
             ELSE IF c.name \in seen_columns
                  THEN [err |-> "InvalidValue", cols |-> parsed_columns]
             ELSE ParseColumns(types, columns, i + 1,
                               Append(parsed_columns, Col(c.name, c.type)),
                               seen_columns \cup {c.name})

\* create_table: [err, meta]; meta is the returned mapping, or the caller's
\* own on a failure (the function never writes to its argument)
create_table_overwrite(types, md, table_name_raw, columns) ==
    LET table_name == strip(table_name_raw)
        parsed == ParseColumns(types, columns, 1,
                               <<Col(RESERVED_ID_COLUMN, "int")>>,
                               {RESERVED_ID_COLUMN})
    IN  IF table_name = "" THEN [err |-> "InvalidValue", meta |-> md]
        ELSE IF Len(columns) = 0 THEN [err |-> "InvalidValue", meta |-> md]
        ELSE IF parsed.err # "none" THEN [err |-> parsed.err, meta |-> md]
        ELSE [err |-> "none",
              meta |-> [n \in DOMAIN md \cup {table_name} |->
                            IF n = table_name THEN [columns |-> parsed.cols]
                            ELSE md[n]]]

create_table_without_id(types, md, table_name_raw, columns) ==
    LET table_name == strip(table_name_raw)
        parsed == ParseColumns(types, columns, 1, <<>>, {})
    IN  IF table_name = "" THEN [err |-> "InvalidValue", meta |-> md]
        ELSE IF table_name \in DOMAIN md
             THEN [err |-> "TableAlreadyExists", meta |-> md]
        ELSE IF Len(columns) = 0 THEN [err |-> "InvalidValue", meta |-> md]
        ELSE IF parsed.err # "none" THEN [err |-> parsed.err, meta |-> md]
        ELSE [err |-> "none",
              meta |-> [n \in DOMAIN md \cup {table_name} |->
                            IF n = table_name THEN [columns |-> parsed.cols]
                            ELSE md[n]]]

create_table(types, md, table_name_raw, columns) ==
    LET table_name == strip(table_name_raw)
        parsed == ParseColumns(types, columns, 1,
                               <<Col(RESERVED_ID_COLUMN, "int")>>,
                               {RESERVED_ID_COLUMN})
    IN  IF table_name = "" THEN [err |-> "InvalidValue", meta |-> md]
        ELSE IF table_name \in DOMAIN md
             THEN [err |-> "TableAlreadyExists", meta |-> md]
        ELSE IF Len(columns) = 0 THEN [err |-> "InvalidValue", meta |-> md]
        ELSE IF parsed.err # "none" THEN [err |-> parsed.err, meta |-> md]
        ELSE [err |-> "none",
              meta |-> [n \in DOMAIN md \cup {table_name} |->
                            IF n = table_name THEN [columns |-> parsed.cols]
                            ELSE md[n]]]

\* drop_table: [err, meta]
drop_table(md, table_name_raw) ==
    LET table_name == strip(table_name_raw)
    IN  IF table_name \notin DOMAIN md
        THEN [err |-> "TableDoesNotExist", meta |-> md]
        ELSE [err |-> "none",
              meta |-> [n \in DOMAIN md \ {table_name} |-> md[n]]]

\* _get_schema: [err, cols].  Every schema record the program writes holds a
\* list under "columns", so TableSchemaError is not raised on its own files.
_get_schema(md, table_name) ==
    IF table_name \notin DOMAIN md
    THEN [err |-> "TableDoesNotExist", cols |-> <<>>]
    ELSE [err |-> "none", cols |-> md[table_name].columns]

(***************************************************************************)
(* dict: a sequence of [k, v] pairs, keys distinct, in insertion order.    *)
(***************************************************************************)
DictKeys(d) == {d[i].k : i \in 1..Len(d)}
DictHas(d, key) == key \in DictKeys(d)

\* d[key] = value: a key already present keeps its position
DictSet(d, key, value) ==
    IF DictHas(d, key)
    THEN [i \in 1..Len(d) |-> IF d[i].k = key THEN [k |-> key, v |-> value] ELSE d[i]]
    ELSE Append(d, [k |-> key, v |-> value])

(***************************************************************************)
(* parser.py                                                               *)
(***************************************************************************)
QUOTE == "\""
BACKSLASH == "\\"

\* the while loop of _split_commas from position i on (1-based)
RECURSIVE SplitCommasFrom(_, _, _, _, _)
SplitCommasFrom(text, i, buf, in_quotes, parts) ==
    IF i > Len(text) THEN Append(parts, buf)
    ELSE LET ch == CharAt(text, i)
         IN  IF in_quotes /\ ch = BACKSLASH /\ i + 1 <= Len(text)
             THEN SplitCommasFrom(text, i + 2, buf \o CharAt(text, i + 1),
                                  in_quotes, parts)
             ELSE IF ch = QUOTE
             THEN IF in_quotes /\ i + 1 <= Len(text) /\ CharAt(text, i + 1) = QUOTE
                  THEN SplitCommasFrom(text, i + 2, buf \o QUOTE, in_quotes, parts)
                  ELSE SplitCommasFrom(text, i + 1, buf \o ch, ~in_quotes, parts)
             ELSE IF ch = "," /\ ~in_quotes
             THEN SplitCommasFrom(text, i + 1, "", in_quotes, Append(parts, buf))
             ELSE SplitCommasFrom(text, i + 1, buf \o ch, in_quotes, parts)

_split_commas(text) == SplitCommasFrom(text, 1, "", FALSE, <<>>)

\* the while loop of _split_one_equals: the position of the one unquoted "=",
\* 0 when there is none, -1 when a second one is met (ValueError)
RECURSIVE ScanEquals(_, _, _, _)
ScanEquals(part, i, in_quotes, eq_pos) ==
    IF i > Len(part) THEN eq_pos
    ELSE LET ch == CharAt(part, i)
         IN  IF in_quotes /\ ch = BACKSLASH /\ i + 1 <= Len(part)
             THEN ScanEquals(part, i + 2, in_quotes, eq_pos)
             ELSE IF ch = QUOTE
             THEN IF in_quotes /\ i + 1 <= Len(part) /\ CharAt(part, i + 1) = QUOTE
                  THEN ScanEquals(part, i + 2, in_quotes, eq_pos)
                  ELSE ScanEquals(part, i + 1, ~in_quotes, eq_pos)
             ELSE IF ch = "=" /\ ~in_quotes
             THEN IF eq_pos = 0 THEN ScanEquals(part, i + 1, in_quotes, i)
                  ELSE -1
             ELSE ScanEquals(part, i + 1, in_quotes, eq_pos)

\* _split_one_equals: [err, key, val]
_split_one_equals(part) ==
    LET eq_pos == ScanEquals(part, 1, FALSE, 0)
        key == strip(SubSeq(part, 1, eq_pos - 1))
        val == strip(SubSeq(part, eq_pos + 1, Len(part)))
    IN  IF eq_pos <= 0 THEN [err |-> "ValueError", key |-> "", val |-> ""]
        ELSE IF key = "" THEN [err |-> "ValueError", key |-> "", val |-> ""]
        ELSE [err |-> "none", key |-> key, val |-> val]

UPPERCASE == "ABCDEFGHIJKLMNOPQRSTUVWXYZ"
LOWERCASE == "abcdefghijklmnopqrstuvwxyz"
DIGITS == "0123456789"

\* str.lower()
RECURSIVE lower(_)
lower(s) ==
    IF Len(s) = 0 THEN ""
    ELSE LET c == CharAt(s, 1)
             p == Find(UPPERCASE, c)
         IN  (IF p = 0 THEN c ELSE CharAt(LOWERCASE, p)) \o lower(SubSeq(s, 2, Len(s)))

RECURSIVE AllDigits(_)
AllDigits(s) ==
    Len(s) = 0 \/ (Find(DIGITS, CharAt(s, 1)) > 0 /\ AllDigits(SubSeq(s, 2, Len(s))))

\* re.fullmatch(r"-?\d+", s)
MatchesInt(s) ==
    IF Len(s) > 0 /\ CharAt(s, 1) = "-"
    THEN Len(s) > 1 /\ AllDigits(SubSeq(s, 2, Len(s)))
    ELSE Len(s) > 0 /\ AllDigits(s)

\* int() of a run of digits
RECURSIVE DigitsValue(_, _)
DigitsValue(s, acc) ==
    IF Len(s) = 0 THEN acc
    ELSE DigitsValue(SubSeq(s, 2, Len(s)), 10 * acc + Find(DIGITS, CharAt(s, 1)) - 1)

ToInt(s) ==
    IF CharAt(s, 1) = "-" THEN 0 - DigitsValue(SubSeq(s, 2, Len(s)), 0)
    ELSE DigitsValue(s, 0)

parse_scalar(raw) ==
    LET s == strip(raw)
        low == lower(s)
    IN  IF Len(s) >= 2 /\ CharAt(s, 1) = QUOTE /\ CharAt(s, Len(s)) = QUOTE
        THEN PyStr(SubSeq(s, 2, Len(s) - 1))
        ELSE IF low = "true" THEN PyBool(TRUE)
        ELSE IF low = "false" THEN PyBool(FALSE)
        ELSE IF MatchesInt(s) THEN PyInt(ToInt(s))
        ELSE PyStr(s)

\* the loop of parse_values over the parts
RECURSIVE ParseValueParts(_, _, _)
ParseValueParts(parts, i, result) ==
    IF i > Len(parts) THEN result
    ELSE LET token == strip(parts[i])
         IN  IF token = "" THEN ParseValueParts(parts, i + 1, result)
             ELSE ParseValueParts(parts, i + 1, Append(result, parse_scalar(token)))

parse_values(values_inner) ==
    IF strip(values_inner) = "" THEN <<>>
    ELSE ParseValueParts(_split_commas(values_inner), 1, <<>>)

\* the loop of parse_assignments over the parts: [err, dict]
RECURSIVE ParseAssignmentParts(_, _, _)
ParseAssignmentParts(parts, i, result) ==
    IF i > Len(parts) THEN [err |-> "none", dict |-> result]
    ELSE LET part == strip(parts[i])
             kv == _split_one_equals(part)
         IN  IF part = "" THEN [err |-> "ValueError", dict |-> <<>>]
             ELSE IF kv.err # "none" THEN [err |-> "ValueError", dict |-> <<>>]
             ELSE ParseAssignmentParts(parts, i + 1,
                                       DictSet(result, kv.key, parse_scalar(kv.val)))

parse_assignments(assignments) ==
    IF strip(assignments) = "" THEN [err |-> "ValueError", dict |-> <<>>]
    ELSE ParseAssignmentParts(_split_commas(assignments), 1, <<>>)

parse_where(where_part) == parse_assignments(where_part)
parse_set(set_part) == parse_assignments(set_part)

(***************************************************************************)
(* The texts the command lines of the model carry.  The parsers run on     *)
(* each of them; the tables below hold their results, so that a handler    *)
(* looks its text up instead of parsing it again in every state.           *)
(***************************************************************************)
ScalarTexts == {"0", "1", "true", "false", "\"Ann\""}

\* values (...) of the table specification: none, one or two scalars
TableInsertTexts ==
    {""} \cup ScalarTexts \cup {a \o ", " \o b : a \in {"0", "1", "true", "\"Ann\""},
                                                 b \in {"0", "1", "true", "false"}}
TableWhereTexts ==
    {k \o " = " \o v : k \in {"ID", "age", "flag"}, v \in {"0", "1", "true"}}
    \cup {"name = \"Ann\"", "name = 1", "zzz = 1", "age", "age == 1",
          "age = 1, flag = true"}
TableSetTexts ==
    {"age = 0", "age = 1", "flag = true", "flag = false", "age = true", "flag = 1",
     "zzz = 1", "ID = 1", "age = 1, ID = 3", "age = 1, flag = 0",
     "flag = false, age = 0", "name = \"Bo\"", "age = 1, age = \"x\"", "age"}
TableUpdateWhereTexts ==
    {"ID = 1", "ID = 2", "age = 1", "flag = true", "flag = 1", "zzz = 1",
     "name = \"Ann\"", "age = 1, flag = true"}

DbInsertTexts == {"", "1", "true", "1, true", "\"Ann\", 1"}
DbWhereTexts == {"ID = 1", "age = 1", "age", "age = 1, ID = 1"}
DbSetTexts == {"age = 0", "ID = 2", "flag = 1"}

ScenarioInsertTexts == {"\"Ann\", 30", "\"Bo\", -5", "30", "\"Ann\""}
ScenarioWhereTexts == {"age=30", "age=31", "name=\"Ann\"", "ID = 2"}
ScenarioSetTexts == {"age=31", "name = \"Bo\"", "age = \"x\""}

ValueTexts == TableInsertTexts \cup DbInsertTexts \cup ScenarioInsertTexts
AssignmentTexts ==
    TableWhereTexts \cup TableSetTexts \cup TableUpdateWhereTexts \cup DbWhereTexts
    \cup DbSetTexts \cup ScenarioWhereTexts \cup ScenarioSetTexts

ParsedValues == [v \in ValueTexts |-> parse_values(v)]
ParsedAssignments == [a \in AssignmentTexts |-> parse_assignments(a)]

(***************************************************************************)
(* core.py: the row engine.  A row is a function from column names to      *)
(* values; table data is a sequence of rows.                               *)
(***************************************************************************)
EmptyMap == [n \in {} |-> 0]

SetMax(S) == CHOOSE m \in S : \A x \in S : x <= m

\* row[key] = value
RowSet(row, key, value) ==
    [c \in DOMAIN row \cup {key} |-> IF c = key THEN value ELSE row[c]]

\* the loop of insert over zip(schema[1:], values): [ok, row]
RECURSIVE BuildRow(_, _, _, _)
BuildRow(schema, values, i, row) ==
    IF i > Len(values) THEN [ok |-> TRUE, row |-> row]
    ELSE IF ~_validate_value(schema[i + 1].type, values[i])
         THEN [ok |-> FALSE, row |-> row]
    ELSE BuildRow(schema, values, i + 1, RowSet(row, schema[i + 1].name, values[i]))

\* max(existing_ids) + 1, or 1
NewIdLenPlusOne(table_data) == Len(table_data) + 1

NewId(table_data) ==
    LET existing_ids == {table_data[i]["ID"].n :
                            i \in {j \in 1..Len(table_data) :
                                      /\ "ID" \in DOMAIN table_data[j]
                                      /\ IsInstanceInt(table_data[j]["ID"])}}
    IN  IF existing_ids # {} THEN SetMax(existing_ids) + 1 ELSE 1

\* insert: [err, rows, new_id]; rows is table_data as the call leaves it
insert_append_first(md, table_name, table_data, values) ==
    LET schema == _get_schema(md, table_name)
        new_id == NewId(table_data)
        built == BuildRow(schema.cols, values, 1, "ID" :> PyInt(new_id))
    IN  IF schema.err # "none"
        THEN [err |-> schema.err, rows |-> table_data, new_id |-> 0]
        ELSE IF Len(values) # Len(schema.cols) - 1
        THEN [err |-> "InvalidValue", rows |-> Append(table_data, built.row), new_id |-> 0]
        ELSE IF ~built.ok
        THEN [err |-> "InvalidValue", rows |-> Append(table_data, built.row), new_id |-> 0]
        ELSE [err |-> "none", rows |-> Append(table_data, built.row), new_id |-> new_id]

insert(md, table_name, table_data, values) ==
    LET schema == _get_schema(md, table_name)
        new_id == NewId(table_data)
        built == BuildRow(schema.cols, values, 1, "ID" :> PyInt(new_id))
    IN  IF schema.err # "none"
        THEN [err |-> schema.err, rows |-> table_data, new_id |-> 0]
        ELSE IF Len(values) # Len(schema.cols) - 1
        THEN [err |-> "InvalidValue", rows |-> table_data, new_id |-> 0]
        ELSE IF ~built.ok
        THEN [err |-> "InvalidValue", rows |-> table_data, new_id |-> 0]
        ELSE [err |-> "none", rows |-> Append(table_data, built.row), new_id |-> new_id]

\* select: [err, rows].  where_clause <<>> stands for None and for {}, which
\* `not where_clause` treats alike; more than one key fails the unpacking;
\* the list comprehension is SelectSeq
select(table_data, where_clause) ==
    IF Len(where_clause) = 0 THEN [err |-> "none", rows |-> table_data]
    ELSE IF Len(where_clause) # 1 THEN [err |-> "ValueError", rows |-> <<>>]
    ELSE LET key == where_clause[1].k
             value == where_clause[1].v
             Keep(row) == RowGetEq(row, key, value)
         IN  [err |-> "none", rows |-> SelectSeq(table_data, Keep)]

\* types_map of update
TypesMap(schema) ==
    [n \in {schema[i].name : i \in 1..Len(schema)} |->
        schema[SetMax({i \in 1..Len(schema) : schema[i].name = n})].type]

\* the inner loop of update over set_clause.items(): [ok, row]
RECURSIVE ApplySet(_, _, _, _)
ApplySet(types_map, row, set_clause, j) ==
    IF j > Len(set_clause) THEN [ok |-> TRUE, row |-> row]
    ELSE LET key == set_clause[j].k
             val == set_clause[j].v
         IN  IF key \notin DOMAIN types_map THEN [ok |-> FALSE, row |-> row]
             ELSE IF ~_validate_value(types_map[key], val)
                  THEN [ok |-> FALSE, row |-> row]
             ELSE ApplySet(types_map, RowSet(row, key, val), set_clause, j + 1)

\* the outer loop of update over table_data: [ok, rows, updated]
RECURSIVE UpdateRows(_, _, _, _, _, _, _)
UpdateRows(types_map, table_data, i, set_clause, w_key, w_val, updated) ==
    IF i > Len(table_data)
    THEN [ok |-> TRUE, rows |-> table_data, updated |-> updated]
    ELSE IF ~RowGetEq(table_data[i], w_key, w_val)
    THEN UpdateRows(types_map, table_data, i + 1, set_clause, w_key, w_val, updated)
    ELSE LET a == ApplySet(types_map, table_data[i], set_clause, 1)
             data == [table_data EXCEPT ![i] = a.row]
         IN  IF ~a.ok THEN [ok |-> FALSE, rows |-> data, updated |-> updated]
             ELSE UpdateRows(types_map, data, i + 1, set_clause, w_key, w_val,
                             updated + 1)

\* update: [err, rows, updated]; rows is table_data as the call leaves it
update_id_allowed(md, table_name, table_data, set_clause, where_clause) ==
    LET schema == _get_schema(md, table_name)
        r == UpdateRows(TypesMap(schema.cols), table_data, 1, set_clause,
                        where_clause[1].k, where_clause[1].v, 0)
    IN  IF schema.err # "none"
        THEN [err |-> schema.err, rows |-> table_data, updated |-> 0]
        ELSE IF Len(where_clause) # 1
        THEN [err |-> "ValueError", rows |-> table_data, updated |-> 0]
        ELSE IF ~r.ok THEN [err |-> "InvalidValue", rows |-> r.rows, updated |-> 0]
        ELSE [err |-> "none", rows |-> r.rows, updated |-> r.updated]

update(md, table_name, table_data, set_clause, where_clause) ==
    LET schema == _get_schema(md, table_name)
        r == UpdateRows(TypesMap(schema.cols), table_data, 1, set_clause,
                        where_clause[1].k, where_clause[1].v, 0)
    IN  IF schema.err # "none"
        THEN [err |-> schema.err, rows |-> table_data, updated |-> 0]
        ELSE IF DictHas(set_clause, "ID")
        THEN [err |-> "InvalidValue", rows |-> table_data, updated |-> 0]
        ELSE IF Len(where_clause) # 1
        THEN [err |-> "ValueError", rows |-> table_data, updated |-> 0]
        ELSE IF ~r.ok THEN [err |-> "InvalidValue", rows |-> r.rows, updated |-> 0]
        ELSE [err |-> "none", rows |-> r.rows, updated |-> r.updated]

\* delete: [err, rows, deleted]
delete(table_data, where_clause) ==
    LET key == where_clause[1].k
        value == where_clause[1].v
        Keep(row) == ~RowGetEq(row, key, value)
        new_data == SelectSeq(table_data, Keep)
    IN  IF Len(where_clause) # 1
        THEN [err |-> "ValueError", rows |-> table_data, deleted |-> 0]
        ELSE [err |-> "none", rows |-> new_data,
              deleted |-> Len(table_data) - Len(new_data)]

(***************************************************************************)
(* utils.py: a missing data file loads as the empty list.                  *)
(***************************************************************************)
load_table_data(fs, table_name) ==
    IF table_name \in DOMAIN fs THEN fs[table_name] ELSE <<>>

save_table_data(fs, table_name, data) ==
    [n \in DOMAIN fs \cup {table_name} |-> IF n = table_name THEN data ELSE fs[n]]

(***************************************************************************)
(* engine.py: the loop of `run`.  A command is the text the regular        *)
(* expressions and shlex cut the line into: the table argument, the column *)
(* tokens, the values text, the set text and the where text.  At "prompt"  *)
(* the loop waits for a line; a handler runs whole and leaves the loop at  *)
(* "printed" (its message is out, `continue` follows) or, when an          *)
(* exception leaves `run`, at "crashed".                                   *)
(***************************************************************************)
Cmd(op, table, cols, text1, text2) ==
    [op |-> op, table |-> table, cols |-> cols, text1 |-> text1, text2 |-> text2]

NoCmd ==
    [cmd |-> Cmd("none", "", <<>>, "", ""),
     status |-> "none",      \* "ok", or the error the handler met
     metaBefore |-> EmptyMap,\* the metadata the handler loaded
     before |-> <<>>,        \* the table data the handler loaded
     mem |-> <<>>,           \* table_data in memory when the handler ended
     rows |-> <<>>,          \* the rows a core call returned
     count |-> 0,            \* new_id, updated or deleted
     values |-> <<>>,        \* parse_values' result
     set |-> <<>>,           \* parse_set's result
     where |-> <<>>,         \* parse_where's result
     saved |-> FALSE]        \* whether the handler wrote a file

\* nothing parsed yet: form and inner tell how the text was put together
NotParsed ==
    [form |-> "none", inner |-> "", fn |-> "none", err |-> "none",
     values |-> <<>>, dict |-> <<>>]

(***************************************************************************)
(* The scenario of the specification's section 8, as command lines.        *)
(***************************************************************************)
Scenario ==
    << Cmd("create_table", "people", <<"name:string", "age:int">>, "", ""),
       Cmd("insert", "people", <<>>, "\"Ann\", 30", ""),
       Cmd("insert", "people", <<>>, "\"Bo\", -5", ""),
       Cmd("select", "people", <<>>, "age=30", ""),
       Cmd("update", "people", <<>>, "age=31", "name=\"Ann\""),
       Cmd("delete", "people", <<>>, "age=31", "") >>

\* scen counts the scenario's steps while the run is exactly the scenario
ScenNext(cmd) ==
    IF scen >= 0 /\ scen < Len(Scenario) /\ cmd = Scenario[scen + 1]
    THEN scen + 1
    ELSE -1

Done(rec, crashed) ==
    /\ last' = rec
    /\ pc' = IF crashed THEN "crashed" ELSE "printed"
    /\ scen' = ScenNext(rec.cmd)
    /\ UNCHANGED <<supported, parser_in, parser_out>>

\* case "create_table"
CmdCreate(table_name, columns) ==
    LET rec == [NoCmd EXCEPT !.cmd = Cmd("create_table", table_name, columns, "", ""),
                             !.metaBefore = metadata]
        r == create_table(supported, metadata, table_name, columns)
    IN  /\ pc = "prompt"
        /\ UNCHANGED <<files, assigned>>
        /\ IF Len(columns) = 0
           THEN /\ Done([rec EXCEPT !.status = "args"], FALSE)
                /\ UNCHANGED metadata
           ELSE IF r.err # "none"
           THEN /\ Done([rec EXCEPT !.status = r.err], FALSE)
                /\ UNCHANGED metadata
           ELSE /\ metadata' = r.meta
                /\ IF table_name \in DOMAIN r.meta
                   THEN Done([rec EXCEPT !.status = "ok", !.saved = TRUE], FALSE)
                   ELSE Done([rec EXCEPT !.status = "KeyError", !.saved = TRUE], TRUE)

\* case "drop_table"; args are the words after the command
CmdDrop(args) ==
    LET table_name == IF Len(args) > 0 THEN args[1] ELSE ""
        rec == [NoCmd EXCEPT !.cmd = Cmd("drop_table", table_name, Tail(<<"">> \o args), "", ""),
                             !.metaBefore = metadata]
        r == drop_table(metadata, table_name)
    IN  /\ pc = "prompt"
        /\ UNCHANGED <<files, assigned>>
        /\ IF Len(args) # 1
           THEN /\ Done([rec EXCEPT !.status = "args"], FALSE)
                /\ UNCHANGED metadata
           ELSE IF r.err # "none"
           THEN /\ Done([rec EXCEPT !.status = r.err], FALSE)
                /\ UNCHANGED metadata
           ELSE /\ metadata' = r.meta
                /\ Done([rec EXCEPT !.status = "ok", !.saved = TRUE], FALSE)

\* insert into <table> values (<values_inner>); values is parse_values' result
CmdInsert(table, values_inner, maxRows, maxId) ==
    LET table_data == load_table_data(files, table)
        values == ParsedValues[values_inner]
        rec == [NoCmd EXCEPT !.cmd = Cmd("insert", table, <<>>, values_inner, ""),
                             !.metaBefore = metadata,
                             !.before = table_data,
                             !.values = values]
        r == insert(metadata, table, table_data, values)
    IN  /\ pc = "prompt"
        /\ UNCHANGED metadata
        /\ IF r.err # "none"
           THEN /\ Done([rec EXCEPT !.status = r.err, !.mem = r.rows], FALSE)
                /\ UNCHANGED <<files, assigned>>
           ELSE /\ Len(r.rows) <= maxRows
                /\ r.new_id <= maxId
                /\ files' = save_table_data(files, table, r.rows)
                /\ assigned' = [n \in DOMAIN assigned \cup {table} |->
                                   IF n = table
                                   THEN (IF n \in DOMAIN assigned THEN assigned[n] ELSE {})
                                        \cup {r.new_id}
                                   ELSE assigned[n]]
                /\ Done([rec EXCEPT !.status = "ok", !.mem = r.rows, !.rows = r.rows,
                                    !.count = r.new_id, !.saved = TRUE], FALSE)

\* select from <table> [where <where_raw>]; where_raw "" is a line without where
CmdSelect(table, where_raw) ==
    LET table_data == load_table_data(files, table)
        w == IF where_raw # "" THEN ParsedAssignments[where_raw]
             ELSE [err |-> "none", dict |-> <<>>]
        rec == [NoCmd EXCEPT !.cmd = Cmd("select", table, <<>>, where_raw, ""),
                             !.metaBefore = metadata]
        r == select(table_data, w.dict)
    IN  /\ pc = "prompt"
        /\ UNCHANGED <<metadata, files, assigned>>
        /\ IF table \notin DOMAIN metadata
           THEN Done([rec EXCEPT !.status = "TableDoesNotExist"], FALSE)
           ELSE IF w.err # "none"
           THEN Done([rec EXCEPT !.status = w.err, !.before = table_data,
                                 !.mem = table_data], TRUE)
           ELSE IF r.err # "none"
           THEN Done([rec EXCEPT !.status = r.err, !.before = table_data,
                                 !.mem = table_data, !.where = w.dict], TRUE)
           ELSE Done([rec EXCEPT !.status = "ok", !.before = table_data,
                                 !.mem = table_data, !.where = w.dict,
                                 !.rows = r.rows, !.count = Len(r.rows)], FALSE)

\* update <table> set <set_raw> where <where_raw>
CmdUpdate(table, set_raw, where_raw) ==
    LET table_data == load_table_data(files, table)
        st == ParsedAssignments[set_raw]
        w == ParsedAssignments[where_raw]
        rec == [NoCmd EXCEPT !.cmd = Cmd("update", table, <<>>, set_raw, where_raw),
                             !.metaBefore = metadata]
        loaded == [rec EXCEPT !.before = table_data, !.mem = table_data]
        r == update(metadata, table, table_data, st.dict, w.dict)
        parsed == [loaded EXCEPT !.set = st.dict, !.where = w.dict, !.mem = r.rows]
    IN  /\ pc = "prompt"
        /\ UNCHANGED <<metadata, assigned>>
        /\ IF table \notin DOMAIN metadata
           THEN /\ Done([rec EXCEPT !.status = "TableDoesNotExist"], FALSE)
                /\ UNCHANGED files
           ELSE IF st.err # "none"
           THEN /\ Done([loaded EXCEPT !.status = st.err], TRUE)
                /\ UNCHANGED files
           ELSE IF w.err # "none"
           THEN /\ Done([loaded EXCEPT !.status = w.err, !.set = st.dict], TRUE)
                /\ UNCHANGED files
           ELSE IF r.err # "none"
           THEN /\ Done([parsed EXCEPT !.status = r.err], r.err # "InvalidValue")
                /\ UNCHANGED files
           ELSE /\ files' = save_table_data(files, table, r.rows)
                /\ Done([parsed EXCEPT !.status = "ok", !.rows = r.rows,
                                       !.count = r.updated, !.saved = TRUE], FALSE)

\* delete from <table> where <where_raw>
CmdDelete(table, where_raw) ==
    LET table_data == load_table_data(files, table)
        w == ParsedAssignments[where_raw]
        rec == [NoCmd EXCEPT !.cmd = Cmd("delete", table, <<>>, where_raw, ""),
                             !.metaBefore = metadata]
        loaded == [rec EXCEPT !.before = table_data, !.mem = table_data]
        r == delete(table_data, w.dict)
    IN  /\ pc = "prompt"
        /\ UNCHANGED <<metadata, assigned>>
        /\ IF table \notin DOMAIN metadata
           THEN /\ Done([rec EXCEPT !.status = "TableDoesNotExist"], FALSE)
                /\ UNCHANGED files
           ELSE IF w.err # "none"
           THEN /\ Done([loaded EXCEPT !.status = w.err], TRUE)
                /\ UNCHANGED files
           ELSE IF r.err # "none"
           THEN /\ Done([loaded EXCEPT !.status = r.err, !.where = w.dict], TRUE)
                /\ UNCHANGED files
           ELSE /\ files' = save_table_data(files, table, r.rows)
                /\ Done([loaded EXCEPT !.status = "ok", !.where = w.dict,
                                       !.mem = r.rows, !.rows = r.rows,
                                       !.count = r.deleted, !.saved = TRUE], FALSE)

\* `continue`: back to the prompt
Continue ==
    /\ pc = "printed"
    /\ pc' = "prompt"
    /\ last' = NoCmd
    /\ UNCHANGED <<supported, metadata, files, assigned, scen, parser_in, parser_out>>

(***************************************************************************)
(* Spec: the whole life of a store, from no file at all.                   *)
(***************************************************************************)
TableArgs == {"people", " people ", ""}
ColumnLists ==
    { <<>>,
      <<"age:int">>,
      <<"flag:bool">>,
      <<"age:int", "flag:bool">>,
      <<"name:str", "age:int">>,
      <<"name:string", "age:int">>,
      <<" age : int ", "age:int">>,
      <<"age:int", "ID:int">>,
      <<"flag:bool", "age">>,
      <<"age:">>,
      <<":int">>,
      <<"age:float">> }
DropArgs == {<<>>, <<"people">>, <<" people ">>, <<"people", "people">>}
DataTables == {"people"}

Init ==
    /\ supported \in SupportedTypeSets
    /\ metadata = EmptyMap
    /\ files = EmptyMap
    /\ pc = "prompt"
    /\ last = NoCmd
    /\ assigned = EmptyMap
    /\ scen = 0
    /\ parser_in = ""
    /\ parser_out = NotParsed

Next ==
    \/ \E n \in TableArgs, c \in ColumnLists : CmdCreate(n, c)
    \/ \E a \in DropArgs : CmdDrop(a)
    \/ \E t \in DataTables, v \in DbInsertTexts : CmdInsert(t, v, MaxDbRows, MaxDbId)
    \/ \E t \in DataTables, w \in DbWhereTexts \cup {""} : CmdSelect(t, w)
    \/ \E t \in DataTables, st \in DbSetTexts, w \in DbWhereTexts : CmdUpdate(t, st, w)
    \/ \E t \in DataTables, w \in DbWhereTexts : CmdDelete(t, w)
    \/ Continue

Spec == Init /\ [][Next]_vars

(***************************************************************************)
(* SpecTable: the data commands on one table that was created empty.       *)
(***************************************************************************)
TableColumnLists == {<<"age:int", "flag:bool">>, <<"name:str">>}

InitTable ==
    /\ supported \in SupportedTypeSets
    /\ \E c \in TableColumnLists :
          LET r == create_table(supported, EmptyMap, "people", c)
          IN  r.err = "none" /\ metadata = r.meta
    /\ files = EmptyMap
    /\ pc = "prompt"
    /\ last = NoCmd
    /\ assigned = EmptyMap
    /\ scen = 0
    /\ parser_in = ""
    /\ parser_out = NotParsed

NextTable ==
    \/ \E v \in TableInsertTexts : CmdInsert("people", v, MaxRows, MaxId)
    \/ \E w \in TableWhereTexts \cup {""} : CmdSelect("people", w)
    \/ \E st \in TableSetTexts, w \in TableUpdateWhereTexts : CmdUpdate("people", st, w)
    \/ \E w \in TableWhereTexts : CmdDelete("people", w)
    \/ Continue

SpecTable == InitTable /\ [][NextTable]_vars

(***************************************************************************)
(* SpecScenario: the store from no file at all, on the scenario's words.   *)
(***************************************************************************)
ScenarioColumnLists == {<<"name:string", "age:int">>, <<"name:str", "age:int">>}

NextScenario ==
    \/ \E c \in ScenarioColumnLists : CmdCreate("people", c)
    \/ CmdDrop(<<"people">>)
    \/ \E v \in ScenarioInsertTexts : CmdInsert("people", v, MaxRows, MaxId)
    \/ \E w \in ScenarioWhereTexts \cup {""} : CmdSelect("people", w)
    \/ \E st \in ScenarioSetTexts, w \in ScenarioWhereTexts : CmdUpdate("people", st, w)
    \/ \E w \in ScenarioWhereTexts : CmdDelete("people", w)
    \/ Continue

SpecScenario == Init /\ [][NextScenario]_vars

(***************************************************************************)
(* SpecParser: the parser alone, on texts that hold one double-quoted      *)
(* segment.  The segment's content is a run of pieces: a plain character,  *)
(* a separator, a backslash-escaped character or a doubled quote.          *)
(***************************************************************************)
QuotedPieces ==
    {"a", ",", "=", BACKSLASH \o QUOTE, BACKSLASH \o BACKSLASH, BACKSLASH \o "=",
     BACKSLASH \o ",", QUOTE \o QUOTE}

RECURSIVE QuotedInners(_)
QuotedInners(n) ==
    IF n = 0 THEN {""}
    ELSE LET shorter == QuotedInners(n - 1)
         IN  shorter \cup {x \o p : x \in shorter, p \in QuotedPieces}

ParserInners == QuotedInners(MaxInner) \cup {"a,b"}
ParserForms == {"values", "one", "two"}

\* a value list of three values, an assignment list of one pair and one of two
ParserText(form, inner) ==
    CASE form = "values" -> QUOTE \o inner \o QUOTE \o ", 1, true"
      [] form = "one" -> "k = " \o QUOTE \o inner \o QUOTE
      [] form = "two" -> "k = " \o QUOTE \o inner \o QUOTE \o ", b = 1"

InitParser ==
    /\ supported \in SupportedTypeSets
    /\ metadata = EmptyMap
    /\ files = EmptyMap
    /\ pc = "prompt"
    /\ last = NoCmd
    /\ assigned = EmptyMap
    /\ scen = 0
    /\ \E form \in ParserForms, inner \in ParserInners :
          /\ parser_in = ParserText(form, inner)
          /\ parser_out = [NotParsed EXCEPT !.form = form, !.inner = inner]

\* values = parse_values(values_inner)
ParseValues ==
    /\ pc = "prompt"
    /\ parser_out' = [parser_out EXCEPT !.fn = "parse_values", !.values = parse_values(parser_in)]
    /\ pc' = "printed"
    /\ UNCHANGED <<supported, metadata, files, last, assigned, scen, parser_in>>

\* set_clause = parse_set(set_raw), where_clause = parse_where(where_raw)
ParseAssignments ==
    LET r == parse_assignments(parser_in)
    IN  /\ pc = "prompt"
        /\ parser_out' = [parser_out EXCEPT !.fn = "parse_assignments", !.err = r.err,
                                    !.dict = r.dict]
        /\ pc' = "printed"
        /\ UNCHANGED <<supported, metadata, files, last, assigned, scen, parser_in>>

NextParser == ParseValues \/ ParseAssignments

SpecParser == InitParser /\ [][NextParser]_vars

(***************************************************************************)
(* What the claims speak of.                                               *)
(***************************************************************************)
\* a value is of the declared column type: int, bool and text are three
\* distinct types
DeclaredTypeHolds(type, v) ==
    \/ type = "int" /\ v.t = "int"
    \/ type = "bool" /\ v.t = "bool"
    \/ type \in {"str", "string"} /\ v.t = "str"

\* the field `key` of the row equals `value` in type and in value
StrictMatch(row, key, value) == key \in DOMAIN row /\ row[key] = value

SchemaOf(md, t) == md[t].columns
ColumnNames(schema) == {schema[i].name : i \in 1..Len(schema)}
AssignedIds(t) == IF t \in DOMAIN assigned THEN assigned[t] ELSE {}
RowIds(rows) == {rows[i]["ID"].n : i \in 1..Len(rows)}

\* C1: every persisted row of every table of the metadata has exactly the
\* columns of the table's current schema, each value of its column's declared
\* type, also after the table was dropped and created again with other columns
C1_RowsMatchSchema ==
    \A t \in DOMAIN metadata :
        LET schema == SchemaOf(metadata, t)
            rows == load_table_data(files, t)
        IN  \A i \in 1..Len(rows) :
                /\ DOMAIN rows[i] = ColumnNames(schema)
                /\ \A c \in 1..Len(schema) :
                       DeclaredTypeHolds(schema[c].type, rows[i][schema[c].name])

\* C2: the id a successful insert returns was never returned by an insert into
\* that table before, whatever was deleted since; while nothing was deleted the
\* ids are 1, 2, 3, ... in order
C2_InsertIdIsFresh ==
    [][(last'.cmd.op = "insert" /\ last'.status = "ok")
        => /\ last'.count \notin AssignedIds(last'.cmd.table)
           /\ (AssignedIds(last'.cmd.table) = 1..Len(last'.before)
               => last'.count = Len(last'.before) + 1)]_vars

ScenarioRow(id, name, age) ==
    [c \in {"ID", "name", "age"} |->
        CASE c = "ID" -> PyInt(id)
          [] c = "name" -> PyStr(name)
          [] c = "age" -> PyInt(age)]

\* C3: the scenario runs as the specification states it: the table is created,
\* the inserts return 1 and 2, the select returns Ann's row, the update changes
\* one row and the delete leaves Bo's row
C3_ScenarioRuns ==
    /\ scen = 1 => last.status = "ok" /\ "people" \in DOMAIN metadata
    /\ scen = 2 => last.status = "ok" /\ last.count = 1
    /\ scen = 3 => last.status = "ok" /\ last.count = 2
    /\ scen = 4 => last.status = "ok" /\ last.rows = <<ScenarioRow(1, "Ann", 30)>>
    /\ scen = 5 => /\ last.status = "ok" /\ last.count = 1
                   /\ load_table_data(files, "people")
                        = <<ScenarioRow(1, "Ann", 31), ScenarioRow(2, "Bo", -5)>>
    /\ scen = 6 => /\ last.status = "ok" /\ last.count = 1
                   /\ load_table_data(files, "people") = <<ScenarioRow(2, "Bo", -5)>>

\* C4: every row of the table, persisted or returned by a command, has an ID
\* that is a positive integer, and no two rows have the same ID
IdsPositiveUnique(rows) ==
    /\ \A i \in 1..Len(rows) :
           /\ "ID" \in DOMAIN rows[i]
           /\ rows[i]["ID"].t = "int"
           /\ rows[i]["ID"].n >= 1
    /\ \A i, j \in 1..Len(rows) : rows[i]["ID"] = rows[j]["ID"] => i = j

C4_IdsPositiveUnique ==
    /\ \A t \in DOMAIN files : IdsPositiveUnique(files[t])
    /\ IdsPositiveUnique(last.mem)
    /\ IdsPositiveUnique(last.rows)

\* an update changed rows of a table of three rows, one of them inserted after
\* a delete
C4_Witness ==
    /\ last.cmd.op = "update" /\ last.status = "ok" /\ last.count >= 1
    /\ Len(last.rows) = 3
    /\ RowIds(last.rows) # 1..3

\* C5: select returns, in their order, exactly the rows whose field `key`
\* equals `value` in type and in value (a bool never matches an int), and all
\* rows when there is no filter
C5_SelectExactMatch ==
    (last.cmd.op = "select" /\ last.status = "ok")
    => IF Len(last.where) = 0 THEN last.rows = last.before
       ELSE LET Hit(row) == StrictMatch(row, last.where[1].k, last.where[1].v)
            IN  last.rows = SelectSeq(last.before, Hit)

\* C6: an insert into an existing table with the wrong number of values, or
\* with a value that is not of its column's declared type, fails with
\* InvalidValue; after a failed insert the rows are as before, in memory and
\* in the file
C6_FailedInsertAppendsNothing ==
    (last.cmd.op = "insert" /\ last.cmd.table \in DOMAIN last.metaBefore)
    => LET schema == SchemaOf(last.metaBefore, last.cmd.table)
           bad == \/ Len(last.values) # Len(schema) - 1
                  \/ \E i \in 1..Len(last.values) :
                         ~DeclaredTypeHolds(schema[i + 1].type, last.values[i])
       IN  /\ bad => last.status = "InvalidValue"
           /\ last.status # "ok"
              => /\ last.mem = last.before
                 /\ load_table_data(files, last.cmd.table) = last.before
                 /\ ~last.saved

\* a bool was refused for the int column of a table that holds rows
C6_Witness ==
    /\ last.cmd.op = "insert" /\ last.status = "InvalidValue"
    /\ Len(last.before) >= 1
    /\ Len(last.values) = 2
    /\ SchemaOf(last.metaBefore, last.cmd.table)[2].type = "int"
    /\ last.values[1].t = "bool"

\* the set and where texts of the last command both parsed, so update was called
UpdateCalled ==
    /\ last.cmd.op = "update"
    /\ last.cmd.table \in DOMAIN last.metaBefore
    /\ ParsedAssignments[last.cmd.text1].err = "none"
    /\ ParsedAssignments[last.cmd.text2].err = "none"

\* C7: an update whose set clause holds the key ID fails with InvalidValue and
\* changes no row, whatever else the set clause holds and whether or not a row
\* matches
C7_UpdateOfIdRejected ==
    (UpdateCalled /\ DictHas(last.set, "ID"))
    => /\ last.status = "InvalidValue"
       /\ last.mem = last.before
       /\ load_table_data(files, last.cmd.table) = last.before
       /\ ~last.saved

\* the set clause holds another key before ID and a row matches the filter
C7_Witness ==
    /\ UpdateCalled
    /\ Len(last.set) = 2 /\ last.set[2].k = "ID"
    /\ Len(last.where) = 1
    /\ \E i \in 1..Len(last.before) :
           /\ RowGetEq(last.before[i], last.where[1].k, last.where[1].v)
           /\ last.set[1].k \in DOMAIN last.before[i]
           /\ last.before[i][last.set[1].k] # last.set[1].v
    /\ last.status = "InvalidValue"

\* C8: delete returns, in their order, the rows whose field `key` does not
\* equal `value`, and the number of rows removed; when no row matches it
\* returns 0 and the same rows in the same order
C8_DeleteRemovesMatches ==
    (last.cmd.op = "delete" /\ last.status = "ok")
    => LET Hit(row) == StrictMatch(row, last.where[1].k, last.where[1].v)
           Miss(row) == ~Hit(row)
       IN  /\ last.rows = SelectSeq(last.before, Miss)
           /\ last.count = Len(last.before) - Len(last.rows)
           /\ SelectSeq(last.before, Hit) = <<>>
              => last.count = 0 /\ last.rows = last.before

\* the names of the model's table arguments, trimmed
Trimmed == ("people" :> "people") @@ (" people " :> "people") @@ ("" :> "")

\* C9: create_table of a name whose trimmed form is a key of the metadata
\* fails with TableAlreadyExists, and after a failed create_table the metadata
\* is the metadata before the call
C9_FailedCreateKeepsMetadata ==
    /\ \A n \in TableArgs :
           LET r == create_table(supported, metadata, n, <<>>)
           IN  /\ r.err = IF Trimmed[n] \in DOMAIN metadata
                          THEN "TableAlreadyExists" ELSE "InvalidValue"
               /\ r.meta = metadata
    /\ (last.cmd.op = "create_table" /\ Len(last.cmd.cols) > 0)
       => /\ Trimmed[last.cmd.table] \in DOMAIN last.metaBefore
             => last.status = "TableAlreadyExists"
          /\ last.status \notin {"ok", "KeyError"}
             => metadata = last.metaBefore /\ ~last.saved

\* a second create_table of the table, under a name that needs trimming, failed
C9_Witness ==
    /\ last.cmd.op = "create_table"
    /\ last.cmd.table = " people "
    /\ last.status = "TableAlreadyExists"
    /\ DOMAIN metadata = {"people"}

\* the columns the model's valid column lists ask for
CallerColumns ==
    (<<"age:int">> :> <<Col("age", "int")>>)
    @@ (<<"flag:bool">> :> <<Col("flag", "bool")>>)
    @@ (<<"age:int", "flag:bool">> :> <<Col("age", "int"), Col("flag", "bool")>>)
    @@ (<<"name:str", "age:int">> :> <<Col("name", "str"), Col("age", "int")>>)
    @@ (<<"name:string", "age:int">> :> <<Col("name", "string"), Col("age", "int")>>)

\* C10: every schema of the metadata begins with the identity column (ID, int),
\* goes on with the caller's columns in their order, and holds no column name
\* twice
C10_SchemaShape ==
    /\ \A t \in DOMAIN metadata :
           LET schema == SchemaOf(metadata, t)
           IN  /\ Len(schema) >= 2
               /\ schema[1] = Col("ID", "int")
               /\ \A i, j \in 1..Len(schema) : schema[i].name = schema[j].name => i = j
    /\ (last.cmd.op = "create_table" /\ last.saved)
       => /\ last.cmd.cols \in DOMAIN CallerColumns
          /\ SchemaOf(metadata, Trimmed[last.cmd.table])
               = <<Col("ID", "int")>> \o CallerColumns[last.cmd.cols]

\* the table was dropped and created again with two other columns
C10_Witness ==
    /\ last.cmd.op = "create_table" /\ last.status = "ok"
    /\ Len(last.cmd.cols) = 2
    /\ "people" \in DOMAIN files
    /\ Len(files["people"]) > 0

\* the row after a successful update of a matching row: each key of the set
\* clause holds its value, every other column is as before
RowUpdated(before, after, set_clause) ==
    /\ DOMAIN after = DOMAIN before \cup DictKeys(set_clause)
    /\ \A j \in 1..Len(set_clause) : after[set_clause[j].k] = set_clause[j].v
    /\ \A c \in DOMAIN before \ DictKeys(set_clause) : after[c] = before[c]

\* C11: a successful update assigns, in every row whose `where` field equals
\* the value in type and in value, each column of the set clause its value; it
\* leaves every other row and every other column as they were, keeps the
\* number and the order of the rows, and counts the rows that matched
C11_UpdateFrame ==
    (last.cmd.op = "update" /\ last.status = "ok")
    => LET key == last.where[1].k
           value == last.where[1].v
           hits == {i \in 1..Len(last.before) : StrictMatch(last.before[i], key, value)}
       IN  /\ Len(last.rows) = Len(last.before)
           /\ \A i \in 1..Len(last.before) :
                  IF i \in hits
                  THEN RowUpdated(last.before[i], last.rows[i], last.set)
                  ELSE last.rows[i] = last.before[i]
           /\ last.count = Cardinality(hits)

\* the outcomes the dispatcher prints and goes on after
TypedOutcomes ==
    {"ok", "args", "InvalidValue", "TableAlreadyExists", "TableDoesNotExist",
     "TableSchemaError"}

\* C12: a failing command ends only itself: whatever the command line, its
\* failure is one of the typed errors and the loop goes on to the next prompt;
\* the run loop is never ended by a failure
C12_FailureEndsOnlyTheCommand ==
    /\ pc # "crashed"
    /\ last.cmd.op # "none" => last.status \in TypedOutcomes

\* C13: a separator inside a double-quoted segment is no separator, also when
\* the segment holds a backslash-escaped character or a doubled quote: a comma
\* in it splits neither a value list nor an assignment list ("a,b", 1, true
\* parses to the three values "a,b", 1, true), and an "=" in it does not count
\* as the part's "=", so that a part with one unquoted "=" and a key parses to
\* one pair
C13_QuotedSeparators ==
    /\ (parser_out.fn = "parse_values" /\ parser_out.form = "values")
       => /\ Len(parser_out.values) = 3
          /\ parser_out.values[1].t = "str"
          /\ parser_out.values[2] = PyInt(1)
          /\ parser_out.values[3] = PyBool(TRUE)
          /\ parser_out.inner = "a,b" => parser_out.values[1] = PyStr("a,b")
    /\ (parser_out.fn = "parse_assignments" /\ parser_out.form = "one")
       => /\ parser_out.err = "none"
          /\ Len(parser_out.dict) = 1
          /\ parser_out.dict[1].k = "k" /\ parser_out.dict[1].v.t = "str"
    /\ (parser_out.fn = "parse_assignments" /\ parser_out.form = "two")
       => /\ parser_out.err = "none"
          /\ Len(parser_out.dict) = 2
          /\ parser_out.dict[1].k = "k" /\ parser_out.dict[1].v.t = "str"
          /\ parser_out.dict[2] = [k |-> "b", v |-> PyInt(1)]

SetMin(S) == CHOOSE m \in S : \A x \in S : m <= x

\* the set-field j names no column of the schema, or its value is not of the
\* column's declared type
SetFieldFails(schema, set_clause, j) ==
    \/ set_clause[j].k \notin ColumnNames(schema)
    \/ \E c \in 1..Len(schema) :
           /\ schema[c].name = set_clause[j].k
           /\ ~DeclaredTypeHolds(schema[c].type, set_clause[j].v)

\* C14: when update fails with InvalidValue on a set-field and the set clause
\* does not hold ID, the one row changed in memory is the first row whose
\* `where` field equals the value in type and in value, and in it exactly the
\* set-fields before the failing one are assigned; every other row is as
\* before, nothing is written back and the table's file is as before
C14_PartialUpdateNotSaved ==
    (UpdateCalled /\ last.status = "InvalidValue" /\ ~DictHas(last.set, "ID"))
    => LET schema == SchemaOf(last.metaBefore, last.cmd.table)
           key == last.where[1].k
           value == last.where[1].v
           hits == {i \in 1..Len(last.before) : StrictMatch(last.before[i], key, value)}
           failing == {j \in 1..Len(last.set) : SetFieldFails(schema, last.set, j)}
       IN  /\ hits # {} /\ failing # {}
           /\ Len(last.mem) = Len(last.before)
           /\ \A i \in 1..Len(last.before) :
                  IF i = SetMin(hits)
                  THEN RowUpdated(last.before[i], last.mem[i],
                                  SubSeq(last.set, 1, SetMin(failing) - 1))
                  ELSE last.mem[i] = last.before[i]
           /\ ~last.saved
           /\ load_table_data(files, last.cmd.table) = last.before

====
